---- MODULE Spec2Model ----
(***************************************************************************)
(* Cloze Overlapper: the field distribution engine (overlapper.py), the    *)
(* settings codec (config.py) and the batch / single-record regeneration   *)
(* with its change detection (batch.py).                                   *)
(*                                                                         *)
(* Text is a sequence of symbols.  A symbol is a one-character string      *)
(* ("a", " ", "|", ",", "1", ...), an HTML tag ("<br>", "<ol>", "<ul>") or *)
(* one whole cloze marker as the regular expressions of the program match  *)
(* it ("{{c1::A}}", "{{o1::A}}", ...).  Concatenation of Python strings is *)
(* concatenation of sequences.                                             *)
(***************************************************************************)
EXTENDS Integers, Sequences, FiniteSets, TLC

\* ------------------------------------------------------------------ bounds
\* longest Original text (in symbols) an edit can store
MaxLen == 2
\* number of external edits (field edits, deletions) in one behaviour
MaxEdits == 2

\* ------------------------------------------------------------ text helpers
Range(s) == {s[i] : i \in 1..Len(s)}

SeqsUpTo(S, n) == UNION {[1..k -> S] : k \in 0..n}

\* Python None / an int, for values that may be absent
None == [none |-> TRUE, v |-> 0]

Some(n) == [none |-> FALSE, v |-> n]

\* str.strip(): the whitespace symbols at both ends removed
IsSpace(c) == c = " "

RECURSIVE LStrip(_)
LStrip(s) ==
    IF s # <<>> /\ IsSpace(Head(s)) THEN LStrip(Tail(s)) ELSE s

RECURSIVE RStrip(_)
RStrip(s) ==
    IF s # <<>> /\ IsSpace(s[Len(s)]) THEN RStrip(SubSeq(s, 1, Len(s) - 1)) ELSE s

Strip(s) == RStrip(LStrip(s))

\* str.split(sep): the pieces between the occurrences of one separator symbol
RECURSIVE SplitOn(_, _)
SplitOn(s, sep) ==
    IF \A i \in 1..Len(s) : s[i] # sep
    THEN <<s>>
    ELSE LET k == CHOOSE i \in 1..Len(s) :
                      s[i] = sep /\ \A j \in 1..(i - 1) : s[j] # sep
         IN <<SubSeq(s, 1, k - 1)>> \o SplitOn(SubSeq(s, k + 1, Len(s)), sep)

\* "".join(list of texts)
RECURSIVE Concat(_)
Concat(ss) == IF ss = <<>> THEN <<>> ELSE Head(ss) \o Concat(Tail(ss))

\* sep.join(list of texts)
RECURSIVE Join(_, _)
Join(ss, sep) ==
    IF ss = <<>> THEN <<>>
    ELSE IF Len(ss) = 1 THEN ss[1]
    ELSE ss[1] \o sep \o Join(Tail(ss), sep)

\* HTML tags of the alphabet
Tags == {"<br>", "<ol>", "<ul>"}

\* anki.utils.stripHTML: markup removed, text kept
StripHTML(s) == SelectSeq(s, LAMBDA c : c \notin Tags)

\* ------------------------------------------------------- decimal integers
DigitChars == <<"0", "1", "2", "3", "4", "5", "6", "7", "8", "9">>

IsDigit(c) == \E d \in 1..10 : DigitChars[d] = c

DigitVal(c) == (CHOOSE d \in 1..10 : DigitChars[d] = c) - 1

RECURSIVE DigitsVal(_)
DigitsVal(s) ==
    IF s = <<>> THEN 0 ELSE 10 * DigitsVal(SubSeq(s, 1, Len(s) - 1)) + DigitVal(s[Len(s)])

AllDigits(s) == s # <<>> /\ \A i \in 1..Len(s) : IsDigit(s[i])

\* int(text) succeeds: an optional sign and at least one digit
IsIntText(s) ==
    \/ AllDigits(s)
    \/ Len(s) > 1 /\ s[1] \in {"-", "+"} /\ AllDigits(Tail(s))

\* int(text)
IntOfText(s) ==
    IF s[1] = "-" THEN 0 - DigitsVal(Tail(s))
    ELSE IF s[1] = "+" THEN DigitsVal(Tail(s))
    ELSE DigitsVal(s)

\* str(n) for a natural number
RECURSIVE NatText(_)
NatText(n) ==
    IF n < 10 THEN <<DigitChars[n + 1]>>
    ELSE NatText(n \div 10) \o <<DigitChars[(n % 10) + 1]>>

\* str(n)
IntText(n) == IF n < 0 THEN <<"-">> \o NatText(0 - n) ELSE NatText(n)

\* ---------------------------------------------------------- settings codec
\* config["synced"]: the synced configuration of the add-on, which the user
\* can change; parseNoteSettings reads it at every call
VARIABLE config

\* config_defaults["synced"]: dflts is before, prompt, after; dflto is
\* no-context-first, no-context-last, gradual ends, no full cloze
config_defaults ==
    [dflts |-> <<Some(1), Some(1), Some(0)>>,
     dflto |-> <<FALSE, FALSE, TRUE, FALSE>>]

\* dflt_set, dflt_opt = config["synced"]["dflts"], config["synced"]["dflto"]
dflt_set == config.dflts

dflt_opt == config.dflto

\* try: int(item) / except ValueError: None
ParseItem(item) == IF IsIntText(item) THEN Some(IntOfText(item)) ELSE None

\* mutant of ParseSets: one token that is not an integer makes the whole
\* vector fall back to the defaults
ParseSetsAllOrNothing(settings) ==
    LET first3 == SubSeq(settings, 1, IF Len(settings) < 3 THEN Len(settings) ELSE 3)
        sets == [i \in 1..Len(first3) |-> ParseItem(first3[i])]
        length == Len(sets)
    IN IF \E i \in 1..length : sets[i].none THEN dflt_set
       ELSE IF length = 3 THEN sets
       ELSE IF length = 2 THEN <<sets[2], sets[1], sets[2]>>
       ELSE IF length = 1 THEN <<dflt_set[1], sets[1], dflt_set[3]>>
       ELSE dflt_set

\* mutant of ParseSets: two values (a, b) are read as before = a, prompt = b
ParseSetsPairInOrder(settings) ==
    LET first3 == SubSeq(settings, 1, IF Len(settings) < 3 THEN Len(settings) ELSE 3)
        sets == [i \in 1..Len(first3) |-> ParseItem(first3[i])]
        length == Len(sets)
    IN IF length = 3 /\ ~sets[2].none THEN sets
       ELSE IF length = 2 /\ ~sets[1].none THEN <<sets[1], sets[2], dflt_set[3]>>
       ELSE IF length = 1 /\ ~sets[1].none THEN <<dflt_set[1], sets[1], dflt_set[3]>>
       ELSE dflt_set

\* the window values of parseNoteSettings, from the list settings = lines[0].split(",")
ParseSets(settings) ==
    IF settings = <<>> THEN dflt_set
    ELSE LET first3 == SubSeq(settings, 1, IF Len(settings) < 3 THEN Len(settings) ELSE 3)
             sets == [i \in 1..Len(first3) |-> ParseItem(first3[i])]
             length == Len(sets)
         IN IF length = 3 /\ ~sets[2].none THEN sets
            ELSE IF length = 2 /\ ~sets[1].none THEN <<sets[2], sets[1], sets[2]>>
            ELSE IF length = 1 /\ ~sets[1].none THEN <<dflt_set[1], sets[1], dflt_set[3]>>
            ELSE dflt_set

\* the flags of parseNoteSettings, from the list options = lines[1].split(",");
\* hasOptions is FALSE when the field has no "|" (options is None)
ParseOpts(hasOptions, options) ==
    IF ~hasOptions \/ options = <<>> THEN dflt_opt
    ELSE [i \in 1..4 |-> IF i <= Len(options) THEN options[i] = <<"y">> ELSE dflt_opt[i]]

parseNoteSettings(html) ==
    LET field == StripHTML(html)
        lines == SplitOn(SelectSeq(field, LAMBDA c : c # " "), "|")
        settings == SplitOn(lines[1], ",")
        hasOptions == Len(lines) > 1
        options == IF hasOptions THEN SplitOn(lines[2], ",") ELSE <<>>
    IN IF (~hasOptions \/ options = <<>>) /\ settings = <<>>
       THEN <<dflt_set, dflt_opt>>
       ELSE <<ParseSets(settings), ParseOpts(hasOptions, options)>>

\* mutant of SetStr: an absent window value is written as 0
SetStrAbsentAsZero(i) == IF i.none THEN <<"0">> ELSE IntText(i.v)

\* str(i) if i is not None else "all"
SetStr(i) == IF i.none THEN <<"a", "l", "l">> ELSE IntText(i.v)

\* mutant of createNoteSettings: only the window values are written
createNoteSettingsWithoutFlags(setopts) ==
    Join([i \in 1..Len(setopts[1]) |-> SetStr(setopts[1][i])], <<",">>)

createNoteSettings(setopts) ==
    LET set_str == Join([i \in 1..Len(setopts[1]) |-> SetStr(setopts[1][i])], <<",">>)
        opt_str == Join([i \in 1..Len(setopts[2]) |->
                            IF setopts[2][i] THEN <<"y">> ELSE <<"n">>], <<",">>)
    IN set_str \o <<" ", "|", " ">> \o opt_str

\* ------------------------------------------------------------ cloze syntax
\* markers matched by the fixed native pattern {{c(\d+)::...}} of add()
AnkiClozes == {"{{c1::A}}", "{{c2::B}}"}

\* markers matched by get_cloze_regex() with the default syntax {{o(\d+)::...}}
\* (\d+ also matches a number written with a leading zero)
OcClozes == {"{{o1::A}}", "{{o2::B}}", "{{o01::C}}"}

\* group 1 of a marker match: the cloze number, as written
OcNum(t) == CASE t = "{{o1::A}}" -> <<"1">>
              [] t = "{{o2::B}}" -> <<"2">>
              [] t = "{{o01::C}}" -> <<"0", "1">>

\* group 2 of a marker match: the content
OcContent(t) == CASE t = "{{o1::A}}" -> "A"
                  [] t = "{{o2::B}}" -> "B"
                  [] t = "{{o01::C}}" -> "C"

\* re.sub(creg, r"{{c\1::\2}}", .) on one marker
ToAnkiCloze(t) == CASE t = "{{o1::A}}" -> "{{c1::A}}"
                    [] t = "{{o2::B}}" -> "{{c2::B}}"
                    [] t = "{{o01::C}}" -> "{{c01::C}}"

\* re.sub(creg, "{{\\1}}", .) on one marker
ToPlaceholder(t) == CASE t = "{{o1::A}}" -> "{{1}}"
                      [] t = "{{o2::B}}" -> "{{2}}"
                      [] t = "{{o01::C}}" -> "{{01}}"

Placeholders == {"{{1}}", "{{2}}", "{{01}}"}

PlaceholderKey(p) == CASE p = "{{1}}" -> <<"1">>
                       [] p = "{{2}}" -> <<"2">>
                       [] p = "{{01}}" -> <<"0", "1">>

\* re.findall(anki_cloze_re, original)
AnkiMatches(original) == SelectSeq(original, LAMBDA t : t \in AnkiClozes)

\* re.findall(self.creg, original): (number, content) per match, by position
OcMatches(original) ==
    LET ms == SelectSeq(original, LAMBDA t : t \in OcClozes)
    IN [i \in 1..Len(ms) |-> [num |-> OcNum(ms[i]), text |-> OcContent(ms[i])]]

\* re.sub(self.creg, r"{{c\1::\2}}", original)
ConvertToAnki(original) ==
    [i \in 1..Len(original) |->
        IF original[i] \in OcClozes THEN ToAnkiCloze(original[i]) ELSE original[i]]

\* re.sub(self.creg, "{{\\1}}", original): the form template
FormStr(original) ==
    [i \in 1..Len(original) |->
        IF original[i] \in OcClozes THEN ToPlaceholder(original[i]) ELSE original[i]]

\* ---------------------------------------------------------- getClozeItems
\* matches.sort(key=lambda x: int(x[0])): a stable sort (insertion sort)
RECURSIVE InsertByInt(_, _)
InsertByInt(sorted, m) ==
    IF sorted = <<>> THEN <<m>>
    ELSE IF IntOfText(sorted[Len(sorted)].num) <= IntOfText(m.num)
         THEN Append(sorted, m)
         ELSE Append(InsertByInt(SubSeq(sorted, 1, Len(sorted) - 1), m), sorted[Len(sorted)])

RECURSIVE SortByInt(_)
SortByInt(ms) ==
    IF ms = <<>> THEN <<>>
    ELSE InsertByInt(SortByInt(SubSeq(ms, 1, Len(ms) - 1)), ms[Len(ms)])

\* itertools.groupby(matches, itemgetter(0)): runs of consecutive equal keys
RECURSIVE GroupBy(_)
GroupBy(ms) ==
    IF ms = <<>> THEN <<>>
    ELSE LET key == ms[1].num
             n == CHOOSE k \in 1..Len(ms) :
                      /\ \A j \in 1..k : ms[j].num = key
                      /\ (k < Len(ms) => ms[k + 1].num # key)
         IN <<[key |-> key, phrases |-> [j \in 1..n |-> ms[j].text]]>>
            \o GroupBy(SubSeq(ms, n + 1, Len(ms)))

\* mutant of getClozeItems: the matches are grouped in the order of the text,
\* without the sort of line 216
getClozeItemsUnsorted(matches) ==
    LET groups == GroupBy(matches)
    IN [items |-> [g \in 1..Len(groups) |->
                      [multi |-> Len(groups[g].phrases) # 1,
                       texts |-> groups[g].phrases]],
        keys |-> [g \in 1..Len(groups) |-> groups[g].key]]

\* An item is a single text (multi = FALSE, one phrase) or a tuple of texts.
getClozeItems(matches) ==
    LET groups == GroupBy(SortByInt(matches))
    IN [items |-> [g \in 1..Len(groups) |->
                      [multi |-> Len(groups[g].phrases) # 1,
                       texts |-> groups[g].phrases]],
        keys |-> [g \in 1..Len(groups) |-> groups[g].key]]

\* ----------------------------------------------------------- getLineItems
\* soup.getText("\n").splitlines(): the text nodes between the tags
TextLines(html) ==
    LET RECURSIVE Runs(_, _)
        Runs(s, cur) ==
            IF s = <<>> THEN (IF cur = <<>> THEN <<>> ELSE <<cur>>)
            ELSE IF Head(s) \in Tags
                 THEN (IF cur = <<>> THEN <<>> ELSE <<cur>>) \o Runs(Tail(s), <<>>)
                 ELSE Runs(Tail(s), Append(cur, Head(s)))
    IN Runs(html, <<>>)

\* soup.findAll("ol") / soup.findAll("ul")
DetectMarkup(html) ==
    IF "<ol>" \in Range(html) THEN "ol"
    ELSE IF "<ul>" \in Range(html) THEN "ul"
    ELSE "div"

\* mutant of getLineItems: blank lines are kept as items
getLineItemsKeepBlank(html) ==
    LET lines == TextLines(html)
    IN [items |-> [i \in 1..Len(lines) |-> [multi |-> FALSE, texts |-> <<lines[i]>>]],
        markup |-> DetectMarkup(html)]

\* An item of the implicit list is one non-blank line.
getLineItems(html) ==
    LET lines == TextLines(html)
        kept == SelectSeq(lines, LAMBDA line : Strip(line) # <<>>)
    IN [items |-> [i \in 1..Len(kept) |-> [multi |-> FALSE, texts |-> <<kept[i]>>]],
        markup |-> DetectMarkup(html)]

\* ------------------------------------------------------------ getMaxFields
\* The structural definition lists the suffixes of the fields whose name
\* starts with the prefix, in definition order: "Text1" is <<"1">>.
\* f.replace(prefix, ""): every further occurrence of the prefix in the name
\* is removed too ("Text" is the prefix as one symbol)
RemovePrefix(suffix) == SelectSeq(suffix, LAMBDA c : c # "Text")

RECURSIVE LastContinuous(_, _)
LastContinuous(fields, last) ==
    IF fields = <<>> THEN last
    ELSE IF ~IsIntText(RemovePrefix(Head(fields))) THEN last
    ELSE IF IntOfText(RemovePrefix(Head(fields))) # last + 1 THEN last
    ELSE LastContinuous(Tail(fields), last + 1)

\* 0 stands for the falsy result (False) of a misconfigured note type
getMaxFields(fields) ==
    LET expected == Len(fields)
        actual == LastContinuous(fields, 0)
    IN IF expected = 0 \/ actual = 0 THEN 0
       ELSE IF expected # actual THEN 0
       ELSE actual

\* warnUser(...) is called by getMaxFields exactly when it returns False
MaxFieldsWarns(fields) == getMaxFields(fields) = 0

\* ----------------------------------------------------------- the generator
\* ClozeGenerator.generate: one slot per item; the item of the slot is the
\* prompt, the items inside the window are shown, the others are hidden.
InWindow(setopts, n, i, j) ==
    LET before == setopts[1][1]
        after == setopts[1][3]
    IN IF j < i
       THEN ~(setopts[2][1] /\ i = 1) /\ (before.none \/ i - j <= before.v)
       ELSE ~(setopts[2][2] /\ i = n) /\ (after.none \/ j - i <= after.v)

RenderItem(setopts, n, i, j, text) ==
    IF j = i THEN <<"{{c1::">> \o text \o <<"}}">>
    ELSE IF InWindow(setopts, n, i, j) THEN text
    ELSE <<"...">>

\* the item a placeholder of the form template refers to, and which of its texts
KeyIndex(keys, key) == CHOOSE j \in 1..Len(keys) : keys[j] = key

Occurrence(formstr, p) == Cardinality({q \in 1..p : formstr[q] = formstr[p]})

PlaceholderText(items, keys, formstr, p) ==
    LET texts == items[KeyIndex(keys, PlaceholderKey(formstr[p]))].texts
        occ == Occurrence(formstr, p)
    IN <<texts[IF occ <= Len(texts) THEN occ ELSE Len(texts)]>>

\* one slot of multi-cloze mode: the form template with its placeholders rendered
CustomField(setopts, items, keys, formstr, i) ==
    Concat([p \in 1..Len(formstr) |->
        IF formstr[p] \in Placeholders
        THEN RenderItem(setopts, Len(items), i, KeyIndex(keys, PlaceholderKey(formstr[p])),
                        PlaceholderText(items, keys, formstr, p))
        ELSE <<formstr[p]>>])

CustomFull(items, keys, formstr) ==
    Concat([p \in 1..Len(formstr) |->
        IF formstr[p] \in Placeholders
        THEN PlaceholderText(items, keys, formstr, p)
        ELSE <<formstr[p]>>])

\* one slot of implicit-list mode: the list of its rendered lines
LineField(setopts, items, i) ==
    [j \in 1..Len(items) |-> RenderItem(setopts, Len(items), i, j, items[j].texts[1])]

LineFull(items) == [j \in 1..Len(items) |-> items[j].texts[1]]

\* kind "none": fields is None (capacity exceeded); kind "zero": fields == 0
generate(setopts, maxfields, items, formstr, keys, custom) ==
    LET total == Len(items)
    IN IF total > maxfields
       THEN [kind |-> "none", fields |-> <<>>, full |-> <<>>, total |-> total]
       ELSE IF total = 0
       THEN [kind |-> "zero", fields |-> <<>>, full |-> <<>>, total |-> total]
       ELSE [kind |-> "ok",
             fields |-> [i \in 1..total |->
                            IF custom THEN CustomField(setopts, items, keys, formstr, i)
                            ELSE LineField(setopts, items, i)],
             full |-> IF custom THEN CustomFull(items, keys, formstr) ELSE LineFull(items),
             total |-> total]

\* ------------------------------------------------------------- write-back
\* A note: og (Original), st (Settings), fl (Full) and tx, the Text slots, a
\* function from the suffixes of the structural definition to their text.
FieldName(idx) == NatText(idx)

\* mutant of processField: a "div" field is wrapped in one container, its
\* lines are not wrapped
processFieldOneContainer(field, markup) ==
    IF markup = "div"
    THEN <<"<div>">> \o Concat(field) \o <<"</div>">>
    ELSE <<IF markup = "ol" THEN "<ol>" ELSE "<ul>">>
         \o Concat([l \in 1..Len(field) |-> <<"<li>">> \o field[l] \o <<"</li>">>])
         \o <<IF markup = "ol" THEN "</ol>" ELSE "</ul>">>

processField(field, markup) ==
    IF markup = "div"
    THEN Concat([l \in 1..Len(field) |-> <<"<div>">> \o field[l] \o <<"</div>">>])
    ELSE <<IF markup = "ol" THEN "<ol>" ELSE "<ul>">>
         \o Concat([l \in 1..Len(field) |-> <<"<li>">> \o field[l] \o <<"</li>">>])
         \o <<IF markup = "ol" THEN "</ol>" ELSE "</ul>">>

updateNote(note, fields, full, setopts, custom, markup) ==
    [note EXCEPT
        !.tx = [name \in DOMAIN note.tx |->
                   IF \E idx \in 1..Len(fields) : FieldName(idx) = name
                   THEN LET idx == CHOOSE k \in 1..Len(fields) : FieldName(k) = name
                        IN IF custom THEN fields[idx] ELSE processField(fields[idx], markup)
                   ELSE note.tx[name]],
        !.fl = IF setopts[2][4] THEN <<>>
               ELSE IF custom THEN full ELSE processField(full, markup),
        !.st = createNoteSettings(setopts)]

handleRegularCloze(note, fields) ==
    LET maxfields == getMaxFields(fields)
    IN [note EXCEPT
           !.tx = [name \in DOMAIN note.tx |->
                      IF maxfields # 0 /\ \E idx \in 1..maxfields : FieldName(idx) = name
                      THEN <<>> ELSE note.tx[name]],
           !.fl = <<>>,
           !.st = <<>>]

handleSingleOverlappingCloze(note, fields) ==
    LET converted == ConvertToAnki(note.og)
        maxfields == getMaxFields(fields)
    IN [note EXCEPT
           !.tx = [name \in DOMAIN note.tx |->
                      IF maxfields # 0 /\ \E idx \in 2..maxfields : FieldName(idx) = name
                      THEN <<>>
                      ELSE IF name = FieldName(1) THEN converted
                      ELSE note.tx[name]],
           !.fl = <<>>,
           !.st = <<"s", "i", "n", "g", "l", "e">>]

\* ------------------------------------------------------ ClozeOverlapper.add
\* What one call of add() returns and does: the note object after the call,
\* the pair (ret, total) it returns, the tooltip it shows (tt, "" for none)
\* with the counts the capacity warning reports, whether getMaxFields warned
\* the user, and whether the note was flushed.
Outcome(note, ret, total, tt, requested, available, warned, flushed) ==
    [note |-> note, ret |-> ret, total |-> total, tt |-> tt,
     requested |-> requested, available |-> available,
     warned |-> warned, flushed |-> flushed]

\* mutant of Mode: the check for mixed syntax (lines 88-92) is missing
ModeWithoutConflictCheck(original) ==
    IF original = <<>> THEN "empty"
    ELSE IF AnkiMatches(original) # <<>> THEN "regular"
    ELSE IF OcMatches(original) # <<>>
         THEN (IF Cardinality({m.num : m \in Range(OcMatches(original))}) = 1
               THEN "single" ELSE "multi")
    ELSE "lines"

\* the mode add() chooses for an original text
Mode(original) ==
    IF original = <<>> THEN "empty"
    ELSE IF AnkiMatches(original) # <<>> /\ OcMatches(original) # <<>> THEN "mixed"
    ELSE IF AnkiMatches(original) # <<>> THEN "regular"
    ELSE IF OcMatches(original) # <<>>
         THEN (IF Cardinality({m.num : m \in Range(OcMatches(original))}) = 1
               THEN "single" ELSE "multi")
    ELSE "lines"

\* mutant of GenerationWith: the capacity warning is shown after the settings
\* were written back
GenerationWithLateCapacityCheck(note, silent, nid, custom, markup, items, setopts, maxfields, gen) ==
    IF items = <<>>
    THEN Outcome(note, FALSE, None, "Warning:items", 0, 0, FALSE, FALSE)
    ELSE IF maxfields = 0
    THEN Outcome(note, FALSE, None, "", 0, 0, TRUE, FALSE)
    ELSE IF gen.kind = "none"
    THEN Outcome([note EXCEPT !.st = createNoteSettings(setopts)], FALSE, None,
                 "Warning:capacity", gen.total, maxfields, FALSE, nid # 0)
    ELSE IF gen.kind = "zero"
    THEN Outcome(note, FALSE, None, "Warning:empty", 0, 0, FALSE, FALSE)
    ELSE Outcome(updateNote(note, gen.fields, gen.full, setopts, custom, markup),
                 TRUE, Some(gen.total), IF silent THEN "" ELSE "Info",
                 0, 0, FALSE, nid # 0)

\* lines 121-153 of add(), with the items, the settings and the capacity at hand
GenerationWith(note, silent, nid, custom, markup, items, setopts, maxfields, gen) ==
    IF items = <<>>
    THEN Outcome(note, FALSE, None, "Warning:items", 0, 0, FALSE, FALSE)
    ELSE IF maxfields = 0
    THEN Outcome(note, FALSE, None, "", 0, 0, TRUE, FALSE)
    ELSE IF gen.kind = "none"
    THEN Outcome(note, FALSE, None, "Warning:capacity", gen.total, maxfields, FALSE, FALSE)
    ELSE IF gen.kind = "zero"
    THEN Outcome(note, FALSE, None, "Warning:empty", 0, 0, FALSE, FALSE)
    ELSE Outcome(updateNote(note, gen.fields, gen.full, setopts, custom, markup),
                 TRUE, Some(gen.total), IF silent THEN "" ELSE "Info",
                 0, 0, FALSE, nid # 0)

\* lines 130-136: the settings are decoded, the capacity is read, the generator runs
Generate(note, fields, silent, nid, custom, markup, items, formstr, keys, setopts, maxfields) ==
    GenerationWith(note, silent, nid, custom, markup, items, setopts, maxfields,
                   generate(setopts, maxfields, items, formstr, keys, custom))

\* lines 113-115: multi-cloze mode, the items are the groups of marker matches
CustomGeneration(note, fields, silent, nid, parsed) ==
    Generate(note, fields, silent, nid, TRUE, "", parsed.items, FormStr(note.og),
             parsed.keys, parseNoteSettings(note.st), getMaxFields(fields))

\* lines 117-119: implicit-list mode, the items are the lines
LineGeneration(note, fields, silent, nid, parsed) ==
    Generate(note, fields, silent, nid, FALSE, parsed.markup, parsed.items, <<>>,
             <<>>, parseNoteSettings(note.st), getMaxFields(fields))

\* lines 73-111 of add(), the mode chosen
AddInMode(note, fields, silent, nid, mode) ==
    IF mode = "empty"
    THEN Outcome(note, FALSE, None, "Reminder", 0, 0, FALSE, FALSE)
    ELSE IF mode = "mixed"
    THEN Outcome(note, FALSE, None, "Error", 0, 0, FALSE, FALSE)
    ELSE IF mode = "regular"
    THEN Outcome(handleRegularCloze(note, fields), TRUE,
                 Some(Len(AnkiMatches(note.og))), IF silent THEN "" ELSE "Info",
                 0, 0, MaxFieldsWarns(fields), nid # 0)
    ELSE IF mode = "single"
    THEN Outcome(handleSingleOverlappingCloze(note, fields), TRUE, Some(1),
                 IF silent THEN "" ELSE "Info", 0, 0, MaxFieldsWarns(fields), nid # 0)
    ELSE IF mode = "multi"
    THEN CustomGeneration(note, fields, silent, nid, getClozeItems(OcMatches(note.og)))
    ELSE LineGeneration(note, fields, silent, nid, getLineItems(note.og))

add(note, fields, silent, nid) == AddInMode(note, fields, silent, nid, Mode(note.og))

\* ---------------------------------------------------------- change detection
\* _get_field_value: every note of a checked note type has the three fields
\* hashlib.md5 is taken as injective: the digest stands for the text it digests
_compute_note_hash(note) == note.og \o <<"|">> \o note.st

\* stored_hashes: per note id, whether the map has an entry and its digest
\* (str(note.id) is one-to-one, so the id stands for the key)
NoHash == [has |-> FALSE, h |-> <<>>]

\* mutant of _needs_regeneration: the fields are not stripped
NeedsRegenerationUnstripped(note, nid, stored_hashes) ==
    IF note.og = <<>> THEN FALSE
    ELSE IF note.st = <<>> THEN TRUE
    ELSE IF ~stored_hashes[nid].has THEN TRUE
    ELSE stored_hashes[nid].h # _compute_note_hash(note)

_needs_regeneration(note, nid, stored_hashes) ==
    LET original == Strip(note.og)
        settings == Strip(note.st)
    IN IF original = <<>> THEN FALSE
       ELSE IF settings = <<>> THEN TRUE
       ELSE IF ~stored_hashes[nid].has THEN TRUE
       ELSE stored_hashes[nid].h # _compute_note_hash(note)

\* mutant of UpdateStoredHash: the hash is stored whatever add() returned
UpdateStoredHashAlways(stored_hashes, nid, note, ret) ==
    [stored_hashes EXCEPT ![nid] = [has |-> TRUE, h |-> _compute_note_hash(note)]]

\* lines 174-182 and 232-241: the stored hash is updated after add() succeeded
UpdateStoredHash(stored_hashes, nid, note, ret) ==
    IF ret
    THEN [stored_hashes EXCEPT ![nid] = [has |-> TRUE, h |-> _compute_note_hash(note)]]
    ELSE stored_hashes

\* =================================================================== state
NoteIds == {1, 2}

\* symbols of the Original texts
OgSyms == {"a", " ", "<ol>", "{{c1::A}}", "{{o1::A}}", "{{o2::B}}", "{{o01::C}}"}

\* every Original text of at most MaxLen symbols
Originals == SeqsUpTo(OgSyms, MaxLen)

\* Original texts an edit stores: one per way add() and _needs_regeneration
\* treat a text (empty, blank, one line, markup without text, native cloze,
\* one marker number, two marker numbers, mixed syntax)
EditedOriginals ==
    {<<>>, <<" ">>, <<"a">>, <<"<ol>">>, <<"{{c1::A}}">>, <<"{{o1::A}}">>,
     <<"{{o1::A}}", "{{o2::B}}">>, <<"{{c1::A}}", "{{o1::A}}">>}

\* Settings texts an edit stores: empty, blank, one window value, malformed
SettingsTexts == {<<>>, <<" ">>, <<"2">>, <<"x">>}

\* structural definitions: the suffixes of the Text fields, in definition order
\* (Text1 Text2, Text1 alone, Text1 Text3 with a gap, no Text field at all),
\* and whether checkModel accepts the note type
Structures ==
    {[ok |-> TRUE, fields |-> f] :
        f \in {<< <<"1">>, <<"2">> >>, << <<"1">> >>, << <<"1">>, <<"3">> >>, <<>>}}
    \cup {[ok |-> FALSE, fields |-> << <<"1">>, <<"2">> >>]}

\* content left in the output slots by an earlier generation
Stale == <<"z">>

NewNote(fields) ==
    [og |-> <<>>, st |-> <<>>, fl |-> Stale, tx |-> [name \in Range(fields) |-> Stale]]

VARIABLES
    model,      \* the structural definition of the note type
    col,        \* the collection: per note id, whether it exists and its fields
    hashfile,   \* data/note_hashes.json
    b,          \* regenerateAllClozes: its position and locals
    last,       \* the most recent call of add() or regenerateNoteById
    edits       \* number of external edits so far

vars == <<config, model, col, hashfile, b, last, edits>>

NoOutcome(note) == Outcome(note, FALSE, None, "", 0, 0, FALSE, FALSE)

\* op: "" (nothing since the last edit), "batch" or "single"; ran: add() was
\* called; pre: the note before the call; out: what add() did; result: what
\* regenerateNoteById returned
NoLast ==
    [op |-> "", nid |-> 0, ran |-> FALSE, pre |-> NewNote(<<>>),
     out |-> NoOutcome(NewNote(<<>>)), result |-> FALSE]

\* loads, saves: calls of _load_hashes and _save_hashes in the run; raised: the
\* call of the progress / tooltip sink whose exception left regenerateAllClozes
\* ("" for none); unchecked: notes of the run the loop never reached
IdleBatch ==
    [pc |-> "idle", ids |-> <<>>, i |-> 0, sh |-> [n \in NoteIds |-> NoHash],
     updated |-> 0, skipped |-> 0, errors |-> 0,
     note |-> NewNote(<<>>), ret |-> FALSE, tooltip |-> FALSE,
     loads |-> 0, saves |-> 0, raised |-> "", unchecked |-> 0]

Init ==
    /\ config = config_defaults
    /\ model \in Structures
    /\ col = [n \in NoteIds |-> [exists |-> TRUE, note |-> NewNote(model.fields)]]
    /\ hashfile = [n \in NoteIds |-> NoHash]
    /\ b = IdleBatch
    /\ last = NoLast
    /\ edits = 0

\* checkModel(note.model(), fields=True, notify=False)
checkModel(m) == m.ok

\* col.findNotes: the ids of the notes of the note type, ascending
RECURSIVE SortedIds(_)
SortedIds(S) ==
    IF S = {} THEN <<>>
    ELSE LET m == CHOOSE x \in S : \A y \in S : x <= y
         IN <<m>> \o SortedIds(S \ {m})

findNotes == SortedIds({n \in NoteIds : col[n].exists})

\* mutant of HostIdle: the host runs other events at any point of the batch
HostIdleAnywhere == TRUE

\* the host runs other events only while the batch is not running or is
\* inside QApplication.processEvents()
HostIdle == b.pc \in {"idle", "yield"}

\* ================================================================= actions
\* An external actor (the user, an automation bridge) edits a field.
EditOriginal(nid, text) ==
    /\ HostIdle /\ edits < MaxEdits /\ col[nid].exists
    /\ col[nid].note.og # text
    /\ col' = [col EXCEPT ![nid].note.og = text]
    /\ edits' = edits + 1
    /\ last' = NoLast
    /\ UNCHANGED <<config, model, hashfile, b>>

EditSettings(nid, text) ==
    /\ HostIdle /\ edits < MaxEdits /\ col[nid].exists
    /\ col[nid].note.st # text
    /\ col' = [col EXCEPT ![nid].note.st = text]
    /\ edits' = edits + 1
    /\ last' = NoLast
    /\ UNCHANGED <<config, model, hashfile, b>>

\* An external actor deletes a note.
DeleteNote(nid) ==
    /\ HostIdle /\ edits < MaxEdits /\ col[nid].exists
    /\ col' = [col EXCEPT ![nid].exists = FALSE]
    /\ edits' = edits + 1
    /\ last' = NoLast
    /\ UNCHANGED <<config, model, hashfile, b>>

\* regenerateAllClozes, lines 114-151: find the notes, load the hashes, start
\* the progress bar.  Without any note it returns before loading anything.
\* mw.progress.start (line 151) is called outside the try statement: its
\* exception leaves the function.
BatchStart ==
    /\ b.pc = "idle"
    /\ \E startRaises \in BOOLEAN :
          b' = IF findNotes = <<>> THEN IdleBatch
               ELSE IF startRaises
               THEN [IdleBatch EXCEPT !.loads = 1, !.raised = "start",
                                      !.unchecked = Len(findNotes)]
               ELSE [IdleBatch EXCEPT !.pc = "check", !.ids = findNotes, !.i = 1,
                                      !.sh = hashfile, !.loads = 1]
    /\ last' = NoLast
    /\ UNCHANGED <<config, model, col, hashfile, edits>>

\* lines 154-167: load note i, check its note type, decide whether it needs
\* regeneration.  getNote raises for a note deleted since the query; the
\* exception is counted and the loop goes on to progress.update.  The two
\* `continue` go to the next note without progress.update / processEvents.
BatchCheck ==
    /\ b.pc = "check" /\ b.i <= Len(b.ids)
    /\ LET nid == b.ids[b.i]
       IN b' = IF ~col[nid].exists
               THEN [b EXCEPT !.errors = b.errors + 1, !.pc = "update"]
               ELSE IF ~checkModel(model)
               THEN [b EXCEPT !.i = b.i + 1]
               ELSE IF ~_needs_regeneration(col[nid].note, nid, b.sh)
               THEN [b EXCEPT !.skipped = b.skipped + 1, !.i = b.i + 1]
               ELSE [b EXCEPT !.pc = "add", !.note = col[nid].note]
    /\ UNCHANGED <<config, model, col, hashfile, last, edits>>

\* lines 169-172: ClozeOverlapper(note, silent=True).add()
BatchAdded(nid, out) ==
    /\ col' = IF out.flushed THEN [col EXCEPT ![nid].note = out.note] ELSE col
    /\ b' = [b EXCEPT !.pc = "record", !.note = out.note, !.ret = out.ret]
    /\ last' = [op |-> "batch", nid |-> nid, ran |-> TRUE, pre |-> b.note,
                out |-> out, result |-> out.ret]

BatchAdd ==
    /\ b.pc = "add"
    /\ BatchAdded(b.ids[b.i], add(b.note, model.fields, TRUE, b.ids[b.i]))
    /\ UNCHANGED <<config, model, hashfile, edits>>

\* lines 174-182: count the update and store the hash if add() succeeded
BatchRecord ==
    /\ b.pc = "record"
    /\ LET nid == b.ids[b.i]
       IN b' = [b EXCEPT !.updated = IF b.ret THEN b.updated + 1 ELSE b.updated,
                         !.sh = UpdateStoredHash(b.sh, nid, b.note, b.ret),
                         !.pc = "update"]
    /\ UNCHANGED <<config, model, col, hashfile, last, edits>>

\* how a run ends: the counters of the run are kept for the summary
BatchEnded(raised, saves, unchecked, tooltip) ==
    [IdleBatch EXCEPT !.updated = b.updated, !.skipped = b.skipped,
                      !.errors = b.errors, !.loads = b.loads,
                      !.raised = raised, !.saves = saves,
                      !.unchecked = unchecked, !.tooltip = tooltip]

\* lines 190-196: progress.update, then QApplication.processEvents().  The
\* call is inside the outer try but outside the try of the record: if it
\* raises, the finally clause runs progress.finish and then _save_hashes
\* (not reached if progress.finish raises too), and the exception leaves the
\* function.
BatchProgress ==
    /\ b.pc = "update"
    /\ \E updateRaises \in BOOLEAN, finishRaises \in BOOLEAN :
          /\ b' = IF ~updateRaises THEN [b EXCEPT !.pc = "yield"]
                  ELSE BatchEnded("update", IF finishRaises THEN 0 ELSE 1,
                                  Len(b.ids) - b.i, FALSE)
          /\ hashfile' = IF updateRaises /\ ~finishRaises THEN b.sh ELSE hashfile
    /\ UNCHANGED <<config, model, col, last, edits>>

\* processEvents returns: the loop goes on with the next note
BatchResume ==
    /\ b.pc = "yield"
    /\ b' = [b EXCEPT !.pc = "check", !.i = b.i + 1]
    /\ UNCHANGED <<config, model, col, hashfile, last, edits>>

\* lines 193-200: progress.finish, save the hashes, show the summary tooltip.
\* If progress.finish raises, _save_hashes and the tooltip are not reached.
BatchFinish ==
    /\ b.pc = "check" /\ b.i > Len(b.ids)
    /\ \E finishRaises \in BOOLEAN, tooltipRaises \in BOOLEAN :
          /\ hashfile' = IF finishRaises THEN hashfile ELSE b.sh
          /\ b' = IF finishRaises THEN BatchEnded("finish", 0, 0, FALSE)
                  ELSE IF b.updated > 0 \/ b.errors > 0
                  THEN BatchEnded(IF tooltipRaises THEN "tooltip" ELSE "", 1, 0, TRUE)
                  ELSE BatchEnded("", 1, 0, FALSE)
    /\ UNCHANGED <<config, model, col, last, edits>>

\* regenerateSingleNote, lines 228-243: what it returns, what add() did and
\* the hashes it saved
SingleAdded(nid, out) ==
    [result |-> out.ret, ran |-> TRUE, out |-> out,
     saved |-> UpdateStoredHash(hashfile, nid, out.note, out.ret)]

\* mutant of regenerateSingleNote: the generation is not gated by
\* _needs_regeneration
regenerateSingleNoteUngated(note, nid) ==
    IF ~checkModel(model)
    THEN [result |-> FALSE, ran |-> FALSE, out |-> NoOutcome(note), saved |-> hashfile]
    ELSE SingleAdded(nid, add(note, model.fields, TRUE, nid))

\* regenerateSingleNote, lines 203-243, on the loaded note
regenerateSingleNote(note, nid) ==
    IF ~checkModel(model)
    THEN [result |-> FALSE, ran |-> FALSE, out |-> NoOutcome(note), saved |-> hashfile]
    ELSE IF ~_needs_regeneration(note, nid, hashfile)
    THEN [result |-> FALSE, ran |-> FALSE, out |-> NoOutcome(note), saved |-> hashfile]
    ELSE SingleAdded(nid, add(note, model.fields, TRUE, nid))

SingleDone(nid, r) ==
    /\ col' = IF r.out.flushed THEN [col EXCEPT ![nid].note = r.out.note] ELSE col
    /\ hashfile' = r.saved
    /\ last' = [op |-> "single", nid |-> nid, ran |-> r.ran,
                pre |-> col[nid].note, out |-> r.out, result |-> r.result]

\* regenerateNoteById, lines 246-263; getNote raises for a deleted note and
\* the exception is caught
RegenerateNoteById(nid) ==
    /\ HostIdle
    /\ IF ~col[nid].exists
       THEN /\ last' = [NoLast EXCEPT !.op = "single", !.nid = nid]
            /\ UNCHANGED <<col, hashfile>>
       ELSE SingleDone(nid, regenerateSingleNote(col[nid].note, nid))
    /\ UNCHANGED <<config, model, b, edits>>

Next ==
    \/ \E nid \in NoteIds, text \in EditedOriginals : EditOriginal(nid, text)
    \/ \E nid \in NoteIds, text \in SettingsTexts : EditSettings(nid, text)
    \/ \E nid \in NoteIds : DeleteNote(nid)
    \/ BatchStart
    \/ BatchCheck
    \/ BatchAdd
    \/ BatchRecord
    \/ BatchProgress
    \/ BatchResume
    \/ BatchFinish
    \/ \E nid \in NoteIds : RegenerateNoteById(nid)

Spec == Init /\ [][Next]_vars

\* ============================================= a collection with content
\* The same operations on a collection whose notes of a valid note type
\* already hold an Original text the user has entered (nothing generated,
\* nothing stored yet).
EnteredOriginals == {<<"a">>, <<"{{o1::A}}", "{{o2::B}}">>}

InitEntered ==
    /\ config = config_defaults
    /\ model = [ok |-> TRUE, fields |-> << <<"1">>, <<"2">> >>]
    /\ \E og1 \in EnteredOriginals, og2 \in EnteredOriginals :
          col = [n \in NoteIds |->
                    [exists |-> TRUE,
                     note |-> [NewNote(model.fields) EXCEPT
                                  !.og = IF n = 1 THEN og1 ELSE og2]]]
    /\ hashfile = [n \in NoteIds |-> NoHash]
    /\ b = IdleBatch
    /\ last = NoLast
    /\ edits = 0

SpecEntered == InitEntered /\ [][Next]_vars

\* ====================================== add() and _needs_regeneration alone
\* A caller (the editor button, a test) applies add() or _needs_regeneration
\* to a note whose fields hold any text: every Original of at most MaxLen
\* symbols, a Settings text of each shape, output slots empty or stale, and
\* a stored hash that is absent, current or outdated.
UnitSettings ==
    SettingsTexts \cup {<<"s", "i", "n", "g", "l", "e">>,
                        createNoteSettings(<<dflt_set, dflt_opt>>)}

UnitNotes(fields) ==
    {[og |-> og, st |-> st, fl |-> prev, tx |-> [name \in Range(fields) |-> prev]] :
        og \in Originals, st \in UnitSettings, prev \in {<<>>, Stale}}

UnitHashes(note) ==
    {NoHash, [has |-> TRUE, h |-> _compute_note_hash(note)], [has |-> TRUE, h |-> <<"?">>]}

InitUnit ==
    /\ config = config_defaults
    /\ model \in Structures
    /\ \E note \in UnitNotes(model.fields) :
          /\ col = [n \in NoteIds |->
                       [exists |-> TRUE,
                        note |-> IF n = 1 THEN note ELSE NewNote(model.fields)]]
          /\ \E h \in UnitHashes(note) :
                hashfile = [n \in NoteIds |-> IF n = 1 THEN h ELSE NoHash]
    /\ b = IdleBatch
    /\ last = NoLast
    /\ edits = 0

Added(nid, out) ==
    /\ col' = IF out.flushed THEN [col EXCEPT ![nid].note = out.note] ELSE col
    /\ last' = [op |-> "add", nid |-> nid, ran |-> TRUE, pre |-> col[nid].note,
                out |-> out, result |-> out.ret]

\* ClozeOverlapper(note, silent=silent).add()
CallAdd(nid, silent) ==
    /\ Added(nid, add(col[nid].note, model.fields, silent, nid))
    /\ UNCHANGED <<config, model, hashfile, b, edits>>

\* _needs_regeneration(note, flds, stored_hashes) with the hashes of the file
CallNeeds(nid) ==
    /\ last' = [NoLast EXCEPT !.op = "needs", !.nid = nid, !.pre = col[nid].note,
                              !.result = _needs_regeneration(col[nid].note, nid, hashfile)]
    /\ UNCHANGED <<config, model, col, hashfile, b, edits>>

NextUnit ==
    \/ \E nid \in NoteIds, silent \in BOOLEAN : CallAdd(nid, silent)
    \/ \E nid \in NoteIds : CallNeeds(nid)

SpecUnit == InitUnit /\ [][NextUnit]_vars

\* ===================================================== the functions alone
\* A caller (the options dialog, the editor, a test) calls one function of the
\* settings codec, getClozeItems or processField on an input and gets its
\* result; last holds the input and the result until the caller returns.
\* most comma-separated tokens in the window part of a Settings text
MaxWinTokens == 4
\* most comma-separated tokens in the flags part of a Settings text
MaxFlagTokens == 5
\* largest window value of a settings vector that is encoded
MaxWindow == 10
\* most lines of a field handed to processField
MaxLines == 2
\* most prefixed fields of a structural definition handed to getMaxFields
MaxFields == 3
\* longest Original and Settings text (in symbols) handed to _compute_note_hash
MaxHashLen == 2
\* most tokens in the window part and in the flags part of the Settings text
\* of a note handed to add()
MaxAddWinTokens == 3
MaxAddFlagTokens == 2
\* most markers of an Original made of markers only
MaxMarkers == 3

\* configurations: the shipped one, and one the user has changed
Configs ==
    {config_defaults,
     [dflts |-> <<Some(2), Some(3), Some(4)>>, dflto |-> <<TRUE, FALSE, TRUE, TRUE>>]}

\* tokens of the window part: two integers, a word, a negative integer
WinTokens == {<<"2">>, <<"3">>, <<"x">>, <<"-", "1">>}

\* tokens of the flags part
FlagTokens == {<<"y">>, <<"n">>, <<"x">>}

\* the Settings text with these tokens; without hasFlags it has no "|"
SettingsText(win, hasFlags, flags) ==
    Join(win, <<",">>) \o (IF hasFlags THEN <<"|">> \o Join(flags, <<",">>) ELSE <<>>)

\* settings vectors and flags that are encoded
WinVals == {None} \cup {Some(n) : n \in 0..MaxWindow}

SetOpts == {<<sets, opts>> : sets \in [1..3 -> WinVals], opts \in [1..4 -> BOOLEAN]}

\* lines a generated field is made of
FieldLines == {<<"a">>, <<"{{c1::", "a", "}}">>, <<"...">>}

\* suffixes of prefixed field names: Text1, Text2, Text3, Text01, Text+2,
\* Textx, TextText2 and Text itself
FieldSuffixes ==
    {<<"1">>, <<"2">>, <<"3">>, <<"0", "1">>, <<"+", "2">>, <<"x">>,
     <<"Text", "2">>, <<>>}

\* the prefixed fields of a structural definition, in definition order (the
\* names of the fields of a note type are distinct)
FieldLists ==
    {f \in SeqsUpTo(FieldSuffixes, MaxFields) :
        \A i \in 1..Len(f), j \in 1..Len(f) : i # j => f[i] # f[j]}

InitCalls ==
    /\ config \in Configs
    /\ model = [ok |-> TRUE, fields |-> << <<"1">>, <<"2">> >>]
    /\ col = [n \in NoteIds |-> [exists |-> TRUE, note |-> NewNote(model.fields)]]
    /\ hashfile = [n \in NoteIds |-> NoHash]
    /\ b = IdleBatch
    /\ last = NoLast
    /\ edits = 0

Called(op, result) == [NoLast EXCEPT !.op = op, !.result = result]

\* parseNoteSettings(html) on a text made of tokens
ParsedNoteSettings(win, hasFlags, flags) ==
    Called("parseNoteSettings",
           [win |-> win, hasFlags |-> hasFlags, flags |-> flags,
            html |-> SettingsText(win, hasFlags, flags),
            setopts |-> parseNoteSettings(SettingsText(win, hasFlags, flags))])

CallParseNoteSettings ==
    /\ last = NoLast
    /\ \E win \in SeqsUpTo(WinTokens, MaxWinTokens), hasFlags \in BOOLEAN :
          \E flags \in IF hasFlags THEN SeqsUpTo(FlagTokens, MaxFlagTokens) ELSE {<<>>} :
             last' = ParsedNoteSettings(win, hasFlags, flags)
    /\ UNCHANGED <<config, model, col, hashfile, b, edits>>

\* createNoteSettings(setopts)
CallCreateNoteSettings ==
    /\ last = NoLast
    /\ \E setopts \in SetOpts :
          last' = Called("createNoteSettings",
                         [setopts |-> setopts, text |-> createNoteSettings(setopts)])
    /\ UNCHANGED <<config, model, col, hashfile, b, edits>>

\* parseNoteSettings on the text createNoteSettings just returned
ParseCreated ==
    /\ last.op = "createNoteSettings"
    /\ last' = Called("parseCreated",
                      [setopts |-> last.result.setopts, text |-> last.result.text,
                       parsed |-> parseNoteSettings(last.result.text)])
    /\ UNCHANGED <<config, model, col, hashfile, b, edits>>

\* getClozeItems(re.findall(self.creg, original))
GotClozeItems(original, matches, got) ==
    Called("getClozeItems",
           [original |-> original, matches |-> matches,
            items |-> got.items, keys |-> got.keys])

\* Original texts made of markers only
MarkerTexts == SeqsUpTo(OcClozes, MaxMarkers)

CallGetClozeItems ==
    /\ last = NoLast
    /\ \E original \in Originals \cup MarkerTexts :
          last' = GotClozeItems(original, OcMatches(original),
                                getClozeItems(OcMatches(original)))
    /\ UNCHANGED <<config, model, col, hashfile, b, edits>>

\* processField(field) with self.markup = markup
CallProcessField ==
    /\ last = NoLast
    /\ \E markup \in {"ol", "ul", "div"}, field \in SeqsUpTo(FieldLines, MaxLines) :
          last' = Called("processField",
                         [markup |-> markup, field |-> field,
                          html |-> processField(field, markup)])
    /\ UNCHANGED <<config, model, col, hashfile, b, edits>>

\* updateNote(fields, full, setopts, custom) with self.markup = markup, for one
\* generated field: a text in multi-cloze mode (custom), a list of lines
\* otherwise; the settings are those of an empty Settings field
UpdatedNote(custom, markup, lines, field) ==
    Called("updateNote",
           [custom |-> custom, markup |-> markup, lines |-> lines,
            nofull |-> parseNoteSettings(<<>>)[2][4],
            note |-> updateNote(col[1].note, <<field>>, field,
                                parseNoteSettings(<<>>), custom, markup)])

CallUpdateNote ==
    /\ last = NoLast
    /\ \E custom \in BOOLEAN, markup \in {"ol", "ul", "div"},
          lines \in SeqsUpTo(FieldLines, MaxLines) :
          last' = UpdatedNote(custom, markup, lines,
                              IF custom THEN Concat(lines) ELSE lines)
    /\ UNCHANGED <<config, model, col, hashfile, b, edits>>

\* getMaxFields(model, prefix) on a structural definition
CallGetMaxFields ==
    /\ last = NoLast
    /\ \E fields \in FieldLists :
          last' = Called("getMaxFields",
                         [fields |-> fields, max |-> getMaxFields(fields),
                          warned |-> MaxFieldsWarns(fields)])
    /\ UNCHANGED <<config, model, col, hashfile, b, edits>>

\* Original and Settings texts that are digested: a letter, a digit and the
\* separator of the Settings syntax
HashTexts == SeqsUpTo({"a", "2", "|"}, MaxHashLen)

HashedNote(og, st) == [NewNote(<<>>) EXCEPT !.og = og, !.st = st]

\* _compute_note_hash on two notes, and _needs_regeneration for the second
\* with the digest of the first stored under its id
ComputedNoteHashes(n1, n2) ==
    Called("computeNoteHash",
           [og1 |-> n1.og, st1 |-> n1.st, og2 |-> n2.og, st2 |-> n2.st,
            h1 |-> _compute_note_hash(n1), h2 |-> _compute_note_hash(n2),
            needs |-> _needs_regeneration(n2, 1,
                         [n \in NoteIds |-> [has |-> TRUE, h |-> _compute_note_hash(n1)]])])

CallComputeNoteHash ==
    /\ last = NoLast
    /\ \E og1 \in HashTexts, st1 \in HashTexts, og2 \in HashTexts, st2 \in HashTexts :
          last' = ComputedNoteHashes(HashedNote(og1, st1), HashedNote(og2, st2))
    /\ UNCHANGED <<config, model, col, hashfile, b, edits>>

\* add() on a note with an Original of implicit-list or multi-cloze mode and
\* a Settings text made of tokens, then add() again on the note as written
AddedTwice(note, first, second) ==
    Called("addTwice",
           [og |-> note.og, st |-> note.st, used |-> parseNoteSettings(note.st),
            ret1 |-> first.ret, note1 |-> first.note,
            ret2 |-> second.ret, note2 |-> second.note])

AddedOnce(note, first) ==
    AddedTwice(note, first, add(first.note, model.fields, TRUE, 0))

AddedTo(note) == AddedOnce(note, add(note, model.fields, TRUE, 0))

AddTwice ==
    /\ last = NoLast
    /\ \E og \in EnteredOriginals, win \in SeqsUpTo(WinTokens, MaxAddWinTokens),
          hasFlags \in BOOLEAN :
          \E flags \in IF hasFlags THEN SeqsUpTo(FlagTokens, MaxAddFlagTokens) ELSE {<<>>} :
             last' = AddedTo([NewNote(model.fields) EXCEPT
                                 !.og = og, !.st = SettingsText(win, hasFlags, flags)])
    /\ UNCHANGED <<config, model, col, hashfile, b, edits>>

\* the caller is done with the result
Return ==
    /\ last # NoLast
    /\ last' = NoLast
    /\ UNCHANGED <<config, model, col, hashfile, b, edits>>

NextCalls ==
    \/ CallParseNoteSettings
    \/ CallCreateNoteSettings
    \/ ParseCreated
    \/ CallGetClozeItems
    \/ CallProcessField
    \/ CallUpdateNote
    \/ CallGetMaxFields
    \/ CallComputeNoteHash
    \/ AddTwice
    \/ Return

SpecCalls == InitCalls /\ [][NextCalls]_vars

\* ================================================================== claims
\* what the claims say about a text, stated on the text itself
HasNative(og) == \E i \in 1..Len(og) : og[i] \in AnkiClozes

HasMarker(og) == \E i \in 1..Len(og) : og[i] \in OcClozes

MarkerNumbers(og) == {OcNum(og[i]) : i \in {j \in 1..Len(og) : og[j] \in OcClozes}}

Digest(note) == [has |-> TRUE, h |-> note.og \o <<"|">> \o note.st]

\* the hashes the path of the last call works on: the batch's map in memory,
\* the file for the single-record path
HashesInUse == IF last.op = "batch" THEN b.sh ELSE hashfile

\* C1: after a successful regeneration whose fingerprint was stored, and no
\* edit since, _needs_regeneration is false for the record.
C1_Idempotent ==
    \A nid \in NoteIds :
        (/\ last.op \in {"batch", "single"} /\ last.nid = nid
         /\ last.ran /\ last.out.ret
         /\ (last.op = "batch" => b.pc = "yield")
         /\ col[nid].exists /\ col[nid].note = last.out.note
         /\ HashesInUse[nid] = Digest(col[nid].note))
        => ~_needs_regeneration(col[nid].note, nid, HashesInUse)

\* C2: the map of stored hashes a path works on gets a new entry for a record
\* only in the step after add() returned success for it, when the note has
\* been written back and flushed, and the entry is the digest of the written
\* fields; a failed add() leaves the entry as it was.  (The batch's final
\* save copies its map to the file.)
C2_BatchEntry(nid) ==
    (b.pc # "idle" /\ b'.pc # "idle" /\ b'.sh[nid] # b.sh[nid])
    => /\ b.pc = "record" /\ b.ids[b.i] = nid /\ b.ret
       /\ last.op = "batch" /\ last.nid = nid /\ last.out.ret /\ last.out.flushed
       /\ col[nid].note = last.out.note /\ col' = col
       /\ b'.sh[nid] = Digest(col[nid].note)

C2_FileEntry(nid) ==
    (hashfile'[nid] # hashfile[nid])
    => \/ b.pc # "idle" /\ b'.pc = "idle" /\ hashfile' = b.sh
       \/ /\ last'.op = "single" /\ last'.nid = nid /\ last'.ran
          /\ last'.out.ret /\ last'.out.flushed
          /\ col'[nid].note = last'.out.note
          /\ hashfile'[nid] = Digest(col'[nid].note)

C2_FingerprintAfterWriteBack ==
    [][\A nid \in NoteIds : C2_BatchEntry(nid) /\ C2_FileEntry(nid)]_vars

C2_Witness ==
    /\ b.pc = "yield" /\ last.op = "batch" /\ last.out.ret
    /\ b.sh[last.nid] = Digest(col[last.nid].note)
    /\ \E n \in NoteIds : hashfile[n].has

\* C3: with a native cloze and a marker cloze in Original, add() fails, every
\* field of the note is as before and the note is not flushed.
C3_MixedSyntaxFails ==
    (last.ran /\ HasNative(last.pre.og) /\ HasMarker(last.pre.og))
    => /\ ~last.out.ret /\ last.out.total = None
       /\ last.out.note = last.pre /\ ~last.out.flushed
       /\ col[last.nid].note = last.pre

C3_Witness ==
    /\ last.op = "add" /\ HasNative(last.pre.og) /\ HasMarker(last.pre.og)
    /\ last.pre.fl = Stale /\ last.pre.st # <<>> /\ last.out.tt = "Error"

\* C4: with native clozes only, after add() Full holds Original, every Text
\* slot is empty and Settings is empty.
C4_PassThrough ==
    (last.ran /\ HasNative(last.pre.og) /\ ~HasMarker(last.pre.og))
    => /\ last.out.ret
       /\ col[last.nid].note.fl = last.pre.og
       /\ \A name \in DOMAIN col[last.nid].note.tx : col[last.nid].note.tx[name] = <<>>
       /\ col[last.nid].note.st = <<>>

\* C5: with one distinct marker number, after add() the first Text slot holds
\* the converted text, every other Text slot and Full are empty and Settings
\* is "single".
C5_SingleCloze ==
    (last.ran /\ ~HasNative(last.pre.og) /\ Cardinality(MarkerNumbers(last.pre.og)) = 1)
    => LET note == col[last.nid].note
       IN /\ last.out.ret
          /\ <<"1">> \in DOMAIN note.tx
          /\ \A name \in DOMAIN note.tx :
                note.tx[name] = IF name = <<"1">> THEN ConvertToAnki(last.pre.og) ELSE <<>>
          /\ note.fl = <<>>
          /\ note.st = <<"s", "i", "n", "g", "l", "e">>

C7_NeedsRegenerationExact ==
    last.op = "needs"
    => last.result =
          (/\ last.pre.og # <<>>
           /\ \/ last.pre.st = <<>>
              \/ ~hashfile[last.nid].has
              \/ hashfile[last.nid] # Digest(last.pre))

\* C7 (amended): the same with Original and Settings stripped of surrounding
\* whitespace in the two emptiness tests (the digest is of the unstripped
\* fields).
C7_NeedsRegenerationStripped ==
    last.op = "needs"
    => last.result =
          (/\ Strip(last.pre.og) # <<>>
           /\ \/ Strip(last.pre.st) = <<>>
              \/ ~hashfile[last.nid].has
              \/ hashfile[last.nid] # Digest(last.pre))

C7_Witness ==
    /\ last.op = "needs" /\ ~last.result
    /\ last.pre.og # <<>> /\ Strip(last.pre.og) = <<>>
    /\ ~hashfile[last.nid].has

\* C8: in a batch run every record that failed (add() returned False or an
\* exception was raised) is counted: once a record of a valid note type has
\* been processed, updated + skipped + errors is the number of records
\* processed so far.
C8_EveryRecordCounted ==
    (b.pc = "yield" /\ checkModel(model))
    => b.updated + b.skipped + b.errors = b.i

\* C9: when getMaxFields reports failure, add() on a non-empty Original fails
\* and no field of the note is changed.
C9_MalformedStructureFails ==
    (last.ran /\ getMaxFields(model.fields) = 0 /\ last.pre.og # <<>>)
    => /\ ~last.out.ret
       /\ last.out.note = last.pre
       /\ col[last.nid].note = last.pre

\* C10: when the number of items exceeds the capacity of the structural
\* definition, add() fails, the warning reports the number of slots requested
\* and the number available, no field of the note is written and the note is
\* not flushed; the capacity warning is shown in no other case.
ItemCount(og) ==
    IF HasMarker(og) THEN Len(getClozeItems(OcMatches(og)).items)
    ELSE Len(getLineItems(og).items)

CapacityExceeded(og) ==
    /\ ~HasNative(og) /\ Cardinality(MarkerNumbers(og)) # 1
    /\ getMaxFields(model.fields) > 0
    /\ ItemCount(og) > getMaxFields(model.fields)

C10_CapacityFailureWritesNothing ==
    last.ran =>
       /\ CapacityExceeded(last.pre.og) = (last.out.tt = "Warning:capacity")
       /\ CapacityExceeded(last.pre.og) =>
             /\ ~last.out.ret /\ last.out.total = None
             /\ last.out.requested = ItemCount(last.pre.og)
             /\ last.out.available = getMaxFields(model.fields)
             /\ last.out.note = last.pre /\ ~last.out.flushed
             /\ col[last.nid].note = last.pre

C10_Witness ==
    /\ last.op = "add" /\ last.out.tt = "Warning:capacity"
    /\ last.out.requested = 2 /\ last.out.available = 1
    /\ last.pre.fl = Stale /\ col[last.nid].note = last.pre

\* what the codec claims say about a token, stated on the token itself
Numeric(tok) == tok \in {<<"2">>, <<"3">>, <<"-", "1">>}

NumberOf(tok) == CASE tok = <<"2">> -> 2
                   [] tok = <<"3">> -> 3
                   [] tok = <<"-", "1">> -> 0 - 1

\* the window value a token stands for: its number, or absent
WindowOf(tok) == IF Numeric(tok) THEN Some(NumberOf(tok)) ELSE None

\* the tokens of the window part that are read: the first three
WinRead(win) == SubSeq(win, 1, IF Len(win) < 3 THEN Len(win) ELSE 3)

\* C11 (as claimed): decoding the encoding of a settings vector and flags
\* gives back the vector and the flags, whichever window values are absent.
C11_RoundTrip ==
    last.op = "parseCreated" => last.result.parsed = last.result.setopts

\* C11 (amended): decoding the encoding gives back the vector and the flags
\* when the prompt value is an integer (before and after may be absent); when
\* the prompt value is absent the decoded vector is the configured default
\* vector and the flags are those encoded.
C11_RoundTripWithPrompt ==
    last.op = "parseCreated"
    => IF ~last.result.setopts[1][2].none
       THEN last.result.parsed = last.result.setopts
       ELSE /\ last.result.parsed[1] = dflt_set
            /\ last.result.parsed[2] = last.result.setopts[2]

C11_Witness ==
    /\ last.op = "parseCreated"
    /\ last.result.setopts[1] = <<None, Some(2), Some(10)>>
    /\ last.result.setopts[2] = <<TRUE, FALSE, FALSE, TRUE>>
    /\ last.result.text = <<"a", "l", "l", ",", "2", ",", "1", "0", " ", "|", " ",
                            "y", ",", "n", ",", "n", ",", "y">>
    /\ last.result.parsed = last.result.setopts

C13_WindowsNonNegative ==
    last.op = "parseNoteSettings"
    => \A i \in 1..3 :
          last.result.setopts[1][i].none \/ last.result.setopts[1][i].v >= 0

\* C18: when the tokens of the window part are one, two or three integers:
\* three are used as they are; two (a, b) give before = b, prompt = a,
\* after = b; one (a) gives the default before, prompt = a, the default after.
C18_Shorthand ==
    (last.op = "parseNoteSettings" /\ Len(last.result.win) \in 1..3
     /\ \A i \in 1..Len(last.result.win) : Numeric(last.result.win[i]))
    => LET win == last.result.win
           sets == last.result.setopts[1]
       IN IF Len(win) = 3
          THEN sets = <<Some(NumberOf(win[1])), Some(NumberOf(win[2])), Some(NumberOf(win[3]))>>
          ELSE IF Len(win) = 2
          THEN sets = <<Some(NumberOf(win[2])), Some(NumberOf(win[1])), Some(NumberOf(win[2]))>>
          ELSE sets = <<dflt_set[1], Some(NumberOf(win[1])), dflt_set[3]>>

C18_Witness ==
    /\ last.op = "parseNoteSettings" /\ config # config_defaults
    /\ last.result.win = << <<"2">>, <<"3">> >>
    /\ last.result.setopts[1] = <<Some(3), Some(2), Some(3)>>

\* C19: with a flags part (after "|"), flag i is true iff token i is "y";
\* a position without a token (all four for an empty flags part) takes the
\* configured default; tokens after the fourth are ignored.
C19_FlagsPositional ==
    (last.op = "parseNoteSettings" /\ last.result.hasFlags)
    => \A i \in 1..4 :
          last.result.setopts[2][i] =
             IF i <= Len(last.result.flags) THEN last.result.flags[i] = <<"y">>
             ELSE dflt_opt[i]

\* what C14 says about the matches, stated on the matches themselves
\* the marker numbers as written, each once, in order of first occurrence
RECURSIVE FirstOccurrences(_, _)
FirstOccurrences(nums, seen) ==
    IF nums = <<>> THEN <<>>
    ELSE IF Head(nums) \in seen THEN FirstOccurrences(Tail(nums), seen)
    ELSE <<Head(nums)>> \o FirstOccurrences(Tail(nums), seen \cup {Head(nums)})

MatchNums(matches) == [i \in 1..Len(matches) |-> matches[i].num]

\* the texts of the matches with a marker number, in the order of the text
TextsOf(matches, num) ==
    LET ms == SelectSeq(matches, LAMBDA m : m.num = num)
    IN [i \in 1..Len(ms) |-> ms[i].text]

\* the value of a marker number as written
MarkerValue(num) == CASE num = <<"1">> -> 1
                      [] num = <<"2">> -> 2
                      [] num = <<"0", "1">> -> 1

\* where match i stands when the matches are ordered by value and matches of
\* equal value keep the order of the text
SortedPos(matches, i) ==
    1 + Cardinality({j \in 1..Len(matches) :
                        MarkerValue(matches[j].num) < MarkerValue(matches[i].num)})
      + Cardinality({j \in 1..(i - 1) :
                        MarkerValue(matches[j].num) = MarkerValue(matches[i].num)})

\* the items laid out as one list of (key, text)
FlatItems(items, keys) ==
    Concat([g \in 1..Len(items) |->
               [k \in 1..Len(items[g].texts) |->
                   [num |-> keys[g], text |-> items[g].texts[k]]]])

ListOf(container, closing, field) ==
    <<container>>
    \o Concat([l \in 1..Len(field) |-> <<"<li>">> \o field[l] \o <<"</li>">>])
    \o <<closing>>

\* as claimed: a paragraph field is one block container around all its lines
ClaimedHtml(markup, field) ==
    IF markup = "ol" THEN ListOf("<ol>", "</ol>", field)
    ELSE IF markup = "ul" THEN ListOf("<ul>", "</ul>", field)
    ELSE <<"<div>">> \o Concat(field) \o <<"</div>">>

\* amended: a paragraph field is one block container per line, nothing around
ReconstructedHtml(markup, field) ==
    IF markup = "ol" THEN ListOf("<ol>", "</ol>", field)
    ELSE IF markup = "ul" THEN ListOf("<ul>", "</ul>", field)
    ELSE Concat([l \in 1..Len(field) |-> <<"<div>">> \o field[l] \o <<"</div>">>])

\* C20 (as claimed): processField wraps each line of a list field in a list
\* item and the items in the list container, and wraps a paragraph field as
\* a whole in one block container.
C20_ParagraphOneContainer ==
    last.op = "processField"
    => last.result.html = ClaimedHtml(last.result.markup, last.result.field)

\* C20 (amended): processField wraps each line of a list field in a list item
\* and the items in the list container; it wraps each line of a paragraph
\* field in a block container of its own, with nothing around them.
\* updateNote writes a field and Full through processField in implicit-list
\* mode and writes them as they are in multi-cloze mode.
C20_ParagraphContainerPerLine ==
    /\ last.op = "processField"
       => last.result.html = ReconstructedHtml(last.result.markup, last.result.field)
    /\ last.op = "updateNote"
       => LET written == IF last.result.custom THEN Concat(last.result.lines)
                         ELSE ReconstructedHtml(last.result.markup, last.result.lines)
          IN /\ last.result.note.tx[<<"1">>] = written
             /\ last.result.note.fl = IF last.result.nofull THEN <<>> ELSE written

C20_Witness ==
    /\ last.op = "processField" /\ last.result.markup = "div"
    /\ last.result.field = << <<"a">>, <<"...">> >>
    /\ last.result.html = <<"<div>", "a", "</div>", "<div>", "...", "</div>">>

\* C15: when a call of the progress / tooltip sink raised during a batch run,
\* the run still reached every note it had found.
C15_SinkFailureDoesNotAbort ==
    (b.pc = "idle" /\ b.raised # "") => b.unchecked = 0

\* C16: in a batch run add() shows no tooltip and no dialog for the note it
\* processes.
C16_NoNotificationPerRecord ==
    (last.op = "batch" /\ last.ran)
    => last.out.tt = "" /\ ~last.out.warned

\* C17: a batch run that found a note has loaded the hashes once and has not
\* saved them while it is running; when it is over, also by an exception
\* that left it, it has saved them exactly once.
C17_LoadedOnceSavedOnce ==
    /\ b.pc # "idle" => b.loads = 1 /\ b.saves = 0
    /\ (b.pc = "idle" /\ b.loads > 0) => b.loads = 1 /\ b.saves = 1

\* what C21 says about a text, stated on the text itself: it has no line of
\* text that is not blank (only markup and whitespace)
NoTextLine(og) == \A i \in 1..Len(og) : og[i] \in Tags \/ IsSpace(og[i])

\* C21: on a non-empty Original without any cloze and without a non-blank
\* line of text, add() shows the no-items warning, returns (False, None),
\* changes no field and does not flush the note; and add() never returns
\* success with a total of zero.
C21_NoItemsFails ==
    /\ (last.ran /\ last.pre.og # <<>> /\ NoTextLine(last.pre.og))
       => /\ last.out.tt = "Warning:items"
          /\ ~last.out.ret /\ last.out.total = None
          /\ last.out.note = last.pre /\ ~last.out.flushed
          /\ col[last.nid].note = last.pre
    /\ (last.ran /\ last.out.ret)
       => ~last.out.total.none /\ last.out.total.v > 0

C21_Witness ==
    /\ last.op = "add" /\ last.pre.og = <<"<ol>", " ">>
    /\ last.pre.fl = Stale /\ last.pre.st = <<"2">>
    /\ getMaxFields(model.fields) = 2
    /\ last.out.tt = "Warning:items" /\ col[last.nid].note = last.pre

\* C22: a batch run takes the notes in the order of the query, one at a
\* time: the index moves by one, from the check of a skipped note or from the
\* yield after a processed one; the run yields only after the progress update
\* that ends a note; and between the load of a note and that yield nothing
\* but the run itself acts: no edit, no single-record regeneration, the only
\* note written is the one at the index, by add(), and the file of hashes is
\* written only when the run ends.
C22_InOrderOneAtATime ==
    [][/\ (b.pc = "idle" /\ b'.pc # "idle")
          => b'.ids = findNotes /\ b'.i = 1 /\ b'.pc = "check"
       /\ (b.pc # "idle" /\ b'.pc # "idle")
          => /\ b'.ids = b.ids
             /\ b'.i \in {b.i, b.i + 1}
             /\ b'.i = b.i + 1 => b.pc \in {"check", "yield"} /\ b'.pc = "check"
       /\ (b'.pc = "yield" /\ b.pc # "yield") => b.pc = "update"
       /\ (b'.pc = "add" /\ b.pc # "add")
          => b.pc = "check" /\ b'.note = col[b.ids[b.i]].note
       /\ b.pc \notin {"idle", "yield"}
          => /\ edits' = edits
             /\ last' # last => last'.op = "batch" /\ last'.nid = b.ids[b.i]
             /\ \A n \in NoteIds :
                   col'[n] # col[n] => b.pc = "add" /\ n = b.ids[b.i]
             /\ hashfile' # hashfile => b'.pc = "idle"]_vars

C22_Witness ==
    /\ b.pc = "record" /\ b.i = 2 /\ Len(b.ids) = 2 /\ b.updated = 1
    /\ last.op = "batch" /\ last.nid = b.ids[2] /\ last.out.ret
    /\ b.sh[b.ids[1]] = Digest(col[b.ids[1]].note)
    /\ col[b.ids[2]].note = last.out.note

\* what C23 says about the fields, stated on the fields themselves: they
\* are prefix+1, prefix+2, ..., prefix+N in definition order
NumberedFrom1(fields) ==
    fields # <<>> /\ \A i \in 1..Len(fields) : fields[i] = NatText(i)

\* C23: getMaxFields returns the number of prefixed fields exactly when they
\* are prefix+1 .. prefix+N in definition order; in every other case it warns
\* and returns no capacity.
C23_CapacityExactlyWhenNumbered ==
    last.op = "getMaxFields"
    => /\ last.result.max =
             IF NumberedFrom1(last.result.fields) THEN Len(last.result.fields) ELSE 0
       /\ last.result.warned = ~NumberedFrom1(last.result.fields)

\* what C24 says about a note, stated on the note itself: generating again
\* from its Original and Settings succeeds and writes the slots it holds
SlotsAreCurrent(note, nid) ==
    LET out == add(note, model.fields, TRUE, nid)
    IN out.ret /\ out.note.tx = note.tx /\ out.note.fl = note.fl

\* C24: whatever edits and single-record regenerations happened at the yield
\* points of a batch run, once the run is over a note with a non-blank
\* Original for which _needs_regeneration is false (with the saved hashes)
\* holds the slots generated from its Original and Settings.
C24_NoStaleFingerprint ==
    \A nid \in NoteIds :
        (/\ b.pc = "idle" /\ col[nid].exists /\ checkModel(model)
         /\ Strip(col[nid].note.og) # <<>>
         /\ ~_needs_regeneration(col[nid].note, nid, hashfile))
        => SlotsAreCurrent(col[nid].note, nid)

\* C25: two notes whose (Original, Settings) pairs differ have different
\* digests, so with the digest of the one stored, the other (Original and
\* Settings not blank) needs regeneration.
C25_DigestDeterminesPair ==
    (last.op = "computeNoteHash"
     /\ <<last.result.og1, last.result.st1>> # <<last.result.og2, last.result.st2>>)
    => /\ last.result.h1 # last.result.h2
       /\ (Strip(last.result.og2) # <<>> => last.result.needs)

\* C26: after a successful generation in implicit-list or multi-cloze mode,
\* whatever the Settings text was, decoding the Settings text written back
\* gives the vector and flags the generation used, and a second add() on the
\* note succeeds and writes the same Settings text and the same slots.
C26_WrittenSettingsFixedPoint ==
    (last.op = "addTwice" /\ last.result.ret1)
    => /\ last.result.used = parseNoteSettings(last.result.st)
       /\ parseNoteSettings(last.result.note1.st) = last.result.used
       /\ last.result.ret2
       /\ last.result.note2.st = last.result.note1.st
       /\ last.result.note2 = last.result.note1

C26_Witness ==
    /\ last.op = "addTwice" /\ last.result.ret1 /\ config # config_defaults
    /\ last.result.og = <<"{{o1::A}}", "{{o2::B}}">>
    /\ last.result.st = <<"x", ",", "2", ",", "x", "|", "y">>
    /\ last.result.used = << <<None, Some(2), None>>, <<TRUE, FALSE, TRUE, TRUE>> >>
    /\ last.result.note1.st = <<"a", "l", "l", ",", "2", ",", "a", "l", "l", " ", "|", " ",
                                "y", ",", "n", ",", "y", ",", "y">>
    /\ last.result.note2 = last.result.note1

\* C27: in multi-cloze mode (at least two distinct marker numbers as add()
\* counts them, by the number as written) getClozeItems returns as many
\* items and keys as there are distinct marker numbers, no key twice, under
\* each key the texts of all the matches with that number, and every
\* placeholder of the form template names exactly one key.
C27_OneItemPerMarkerNumber ==
    (last.op = "getClozeItems"
     /\ Cardinality(Range(MatchNums(last.result.matches))) > 1)
    => LET matches == last.result.matches
           items == last.result.items
           keys == last.result.keys
           formstr == FormStr(last.result.original)
       IN /\ Len(items) = Len(keys)
          /\ Len(keys) = Cardinality(Range(MatchNums(matches)))
          /\ \A g \in 1..Len(keys), h \in 1..Len(keys) : g # h => keys[g] # keys[h]
          /\ \A g \in 1..Len(keys) : items[g].texts = TextsOf(matches, keys[g])
          /\ \A p \in 1..Len(formstr) :
                formstr[p] \in Placeholders
                => Cardinality({g \in 1..Len(keys) : keys[g] = PlaceholderKey(formstr[p])}) = 1

====
